---- MODULE Spec2Model ----
(***************************************************************************)
(* The arena-indexed computational graph of src/src/comp_graph3.rs:        *)
(* CompGraph { nodes: Vec<Node>, graph_inputs: HashMap<name, usize> } with *)
(* add_node, add_input_node, set_input, invalidate_node and compute.       *)
(* Node ids are the 0-based Rust indices; nodes[i] is At(ns, i).           *)
(* A panic unwinds out of the call and leaves whatever the call had        *)
(* already written; the caller may go on using the graph.                  *)
(* The heap-shared encoding of src/src/comp_graph.rs (OperationNode behind *)
(* Rc, InputNode::set, compute, invalidate_cache) is modelled next to it   *)
(* in the variables heap, hlast and alone.                                 *)
(***************************************************************************)
EXTENDS Integers, Sequences, FiniteSets, TLC

\* ---- bounds of the model ----
MaxNodes == 3
MaxArity == 2
MaxVal == 2
MaxSpurious == 1
MaxVisits == 6
MaxAlone == 1

Names == {"a", "b"}
UnknownName == "zz"
Values == 1..MaxVal
OpKinds == {"fold"}

VARIABLES nodes, graph_inputs, last, calls, run, heap, hlast, alone

vars == <<nodes, graph_inputs, last, calls, run, heap, hlast, alone>>

\* alone counts the calls made to the heap-shared encoding with no call of
\* the arena next to them; it is not state of the program.

\* ---- Option<T> ----
None == <<>>
Some(v) == <<v>>
IsSome(c) == c # <<>>
Unwrap(c) == c[1]

\* ---- struct Node ----
Node(cache, node_inputs, dependents, op) ==
    [cache |-> cache, node_inputs |-> node_inputs, dependents |-> dependents, op |-> op]

At(ns, i) == ns[i + 1]

Zeros(n) == [i \in 1..n |-> 0]

\* ---- the node functions (Box<dyn FnMut(&mut dyn Iterator<Item = T>) -> T>) ----
RECURSIVE FoldFrom(_, _, _)
FoldFrom(vals, i, acc) ==
    IF i > Len(vals) THEN acc ELSE FoldFrom(vals, i + 1, 2 * acc + vals[i])

\* "fold":        |it| it.fold(1, |a, x| 2 * a + x)      (order-sensitive)
\* "first":       |x| x.next().unwrap()                  (the closure of compute)
\* "unreachable": |_| unreachable!("should not be called on input node")
ApplyOp(kind, vals) ==
    CASE kind = "fold" -> [panic |-> "", val |-> FoldFrom(vals, 1, 1)]
      [] kind = "first" ->
            IF Len(vals) = 0 THEN [panic |-> "unwrap on None", val |-> 0]
            ELSE [panic |-> "", val |-> vals[1]]
      [] OTHER -> [panic |-> "unreachable: should not be called on input node", val |-> 0]

\* ---- add_node ----
\* the loop of add_node pushing the input's own id instead of the new node's
RECURSIVE push_dependents_self(_, _, _, _)
push_dependents_self(ns, inputs, i, next_id) ==
    IF i > Len(inputs) THEN [nodes |-> ns, panic |-> ""]
    ELSE IF inputs[i] >= Len(ns) THEN [nodes |-> ns, panic |-> "index out of bounds"]
    ELSE push_dependents_self([ns EXCEPT ![inputs[i] + 1].dependents = Append(@, inputs[i])],
                              inputs, i + 1, next_id)

RECURSIVE push_dependents(_, _, _, _)
push_dependents(ns, inputs, i, next_id) ==
    IF i > Len(inputs) THEN [nodes |-> ns, panic |-> ""]
    ELSE IF inputs[i] >= Len(ns) THEN [nodes |-> ns, panic |-> "index out of bounds"]
    ELSE push_dependents([ns EXCEPT ![inputs[i] + 1].dependents = Append(@, next_id)],
                         inputs, i + 1, next_id)

\* add_node that appends the node without indexing its inputs
add_node_unchecked(ns, inputs, op) ==
    [nodes |-> Append(ns, Node(None, inputs, <<>>, op)), panic |-> "", id |-> Len(ns)]

add_node(ns, inputs, op) ==
    LET next_id == Len(ns)
        r == push_dependents(ns, inputs, 1, next_id)
    IN IF r.panic # "" THEN [nodes |-> r.nodes, panic |-> r.panic, id |-> -1]
       ELSE [nodes |-> Append(r.nodes, Node(None, inputs, <<>>, op)),
             panic |-> "", id |-> next_id]

\* ---- add_input_node ----
\* a registry that keeps the first id bound to a name
insert_keep_first(gi, name, id) ==
    IF name \in DOMAIN gi THEN gi
    ELSE [k \in DOMAIN gi \cup {name} |-> IF k = name THEN id ELSE gi[k]]

\* HashMap::insert: binds name to id, replacing the id bound before
insert(gi, name, id) ==
    [k \in DOMAIN gi \cup {name} |-> IF k = name THEN id ELSE gi[k]]

add_input_node(ns, gi, name) ==
    LET r == add_node(ns, <<>>, "unreachable")
    IN [nodes |-> r.nodes, graph_inputs |-> insert(gi, name, r.id),
        panic |-> r.panic, id |-> r.id]

\* ---- invalidate_node ----
\* invalidate loop that takes each visited node's dependents list out of the node
RECURSIVE invalidate_loop_drain(_, _)
invalidate_loop_drain(ns, stack) ==
    IF stack = <<>> THEN [nodes |-> ns, panic |-> ""]
    ELSE LET next == stack[Len(stack)]
             rest == SubSeq(stack, 1, Len(stack) - 1)
         IN IF next >= Len(ns) THEN [nodes |-> ns, panic |-> "index out of bounds"]
            ELSE invalidate_loop_drain(
                     [ns EXCEPT ![next + 1].cache = None, ![next + 1].dependents = <<>>],
                     rest \o At(ns, next).dependents)

RECURSIVE invalidate_loop(_, _)
invalidate_loop(ns, stack) ==
    IF stack = <<>> THEN [nodes |-> ns, panic |-> ""]
    ELSE LET next == stack[Len(stack)]
             rest == SubSeq(stack, 1, Len(stack) - 1)
         IN IF next >= Len(ns) THEN [nodes |-> ns, panic |-> "index out of bounds"]
            ELSE invalidate_loop([ns EXCEPT ![next + 1].cache = None],
                                 rest \o At(ns, next).dependents)

\* invalidate_node that resets the node itself and does not walk its dependents
invalidate_node_shallow(ns, node) ==
    IF node >= Len(ns) THEN [nodes |-> ns, panic |-> "index out of bounds"]
    ELSE [nodes |-> [ns EXCEPT ![node + 1].cache = None], panic |-> ""]

invalidate_node(ns, node) == invalidate_loop(ns, <<node>>)

\* ---- set_input ----
\* set_input that stores the value without invalidating anything
set_input_no_invalidate(ns, gi, name, data) ==
    IF name \notin DOMAIN gi THEN [nodes |-> ns, panic |-> "no such input"]
    ELSE [nodes |-> [ns EXCEPT ![gi[name] + 1].cache = Some(data)], panic |-> ""]

\* set_input that returns early when the input already holds the value
set_input_short_circuit(ns, gi, name, data) ==
    IF name \notin DOMAIN gi THEN [nodes |-> ns, panic |-> "no such input"]
    ELSE IF At(ns, gi[name]).cache = Some(data) THEN [nodes |-> ns, panic |-> ""]
    ELSE LET r == invalidate_node(ns, gi[name])
         IN IF r.panic # "" THEN r
            ELSE [nodes |-> [r.nodes EXCEPT ![gi[name] + 1].cache = Some(data)],
                  panic |-> ""]

set_input(ns, gi, name, data) ==
    IF name \notin DOMAIN gi THEN [nodes |-> ns, panic |-> "no such input"]
    ELSE LET input_id == gi[name]
             r == invalidate_node(ns, input_id)
         IN IF r.panic # "" THEN r
            ELSE [nodes |-> [r.nodes EXCEPT ![input_id + 1].cache = Some(data)],
                  panic |-> ""]

\* ---- calculate_node / compute ----
\* st = [nodes, calls, panic]; hlen is the length of the slice `head`;
\* owner is the node whose op is `operation` (-1: the closure of compute).
OpOf(ns, owner) == IF owner = -1 THEN "first" ELSE At(ns, owner).op

CountCall(cs, owner) == IF owner = -1 THEN cs ELSE [cs EXCEPT ![owner + 1] = @ + 1]

RECURSIVE calculate_node(_, _, _, _)
RECURSIVE calculate_loop(_, _, _, _)
\* calculate_node's loop without the `cache.is_none()` test
calculate_loop_always(st, hlen, inputs, i) ==
    IF st.panic # "" \/ i > Len(inputs) THEN st
    ELSE LET input == inputs[i] IN
         IF input >= hlen THEN [st EXCEPT !.panic = "index out of bounds"]
         ELSE LET r == calculate_node(st, input, At(st.nodes, input).node_inputs, input)
              IN IF r.panic # ""
                 THEN [nodes |-> r.nodes, calls |-> r.calls, panic |-> r.panic]
                 ELSE calculate_loop(
                        [nodes |-> [r.nodes EXCEPT ![input + 1].cache = Some(r.val)],
                         calls |-> r.calls, panic |-> ""],
                        hlen, inputs, i + 1)

calculate_loop(st, hlen, inputs, i) ==
    IF st.panic # "" \/ i > Len(inputs) THEN st
    ELSE LET input == inputs[i] IN
         IF input >= hlen THEN [st EXCEPT !.panic = "index out of bounds"]
         ELSE IF At(st.nodes, input).cache = None
         THEN LET r == calculate_node(st, input, At(st.nodes, input).node_inputs, input)
              IN IF r.panic # ""
                 THEN [nodes |-> r.nodes, calls |-> r.calls, panic |-> r.panic]
                 ELSE calculate_loop(
                        [nodes |-> [r.nodes EXCEPT ![input + 1].cache = Some(r.val)],
                         calls |-> r.calls, panic |-> ""],
                        hlen, inputs, i + 1)
         ELSE calculate_loop(st, hlen, inputs, i + 1)

\* calculate_node handing the values to the function last input first
calculate_node_reversed(st, hlen, inputs, owner) ==
    LET s1 == calculate_loop(st, hlen, inputs, 1)
    IN IF s1.panic # ""
       THEN [nodes |-> s1.nodes, calls |-> s1.calls, panic |-> s1.panic, val |-> 0]
       ELSE LET k == Len(inputs)
                vals == [i \in 1..k |-> Unwrap(At(s1.nodes, inputs[k + 1 - i]).cache)]
                r == ApplyOp(OpOf(s1.nodes, owner), vals)
            IN [nodes |-> s1.nodes, calls |-> CountCall(s1.calls, owner),
                panic |-> r.panic, val |-> r.val]

calculate_node(st, hlen, inputs, owner) ==
    LET s1 == calculate_loop(st, hlen, inputs, 1)
    IN IF s1.panic # ""
       THEN [nodes |-> s1.nodes, calls |-> s1.calls, panic |-> s1.panic, val |-> 0]
       ELSE LET vals == [i \in 1..Len(inputs) |-> Unwrap(At(s1.nodes, inputs[i]).cache)]
                r == ApplyOp(OpOf(s1.nodes, owner), vals)
            IN [nodes |-> s1.nodes, calls |-> CountCall(s1.calls, owner),
                panic |-> r.panic, val |-> r.val]

compute(ns, node) ==
    calculate_node([nodes |-> ns, calls |-> Zeros(Len(ns)), panic |-> ""],
                   Len(ns), <<node>>, -1)

\* ---- the record of the last call: what the caller observed ----
\* call: the operation; node: the NodeId it was given (set_input: the id the name
\* resolved to, -1 if none); key, data: set_input's arguments; old: cache(node)
\* as it was when set_input, invalidate_node or compute was called; ret: the
\* value returned;
\* panic: the panic message, "" when the call returned.
Call(name, node, key, data, old, ret, panic) ==
    [call |-> name, node |-> node, key |-> key, data |-> data,
     old |-> old, ret |-> ret, panic |-> panic]

\* CompGraph::cache: self.nodes[node.0].cache.clone(); indexing outside the
\* arena panics
CacheOf(ns, node) ==
    IF node >= 0 /\ node < Len(ns) THEN [panic |-> "", val |-> At(ns, node).cache]
    ELSE [panic |-> "index out of bounds", val |-> None]

\* what a caller could read of cache(node) before a call, for the record of
\* the call: the cache of the node, None when there is no such node to read
OldCache(ns, node) ==
    IF CacheOf(ns, node).panic = "" THEN CacheOf(ns, node).val ELSE None

\* ---- a call in progress, one loop iteration or one return at a time ----
\* call: the operation running ("" when none); pc: "idle", "loop" (inside
\* invalidate_node's while loop or calculate_node's for loop), "store"
\* (set_input after invalidate_node returned), "returned", "panicked";
\* node, data: the arguments; stack: invalidate_node's work stack; frames: the
\* activations of calculate_node, innermost last, each with its slice length
\* (hlen), its inputs, the position of its for loop (i) and the node whose op it
\* was given (owner, -1 for compute's closure); visits: how often the while loop
\* popped each node; applied: the nodes whose op ran, in order; val: the value
\* returned.
Frame(hlen, inputs, i, owner) ==
    [hlen |-> hlen, inputs |-> inputs, i |-> i, owner |-> owner]

Run(call, pc, node, data, stack, frames, visits, applied, val) ==
    [call |-> call, pc |-> pc, node |-> node, data |-> data, stack |-> stack,
     frames |-> frames, visits |-> visits, applied |-> applied, val |-> val]

Idle == Run("", "idle", -1, 0, <<>>, <<>>, <<>>, <<>>, 0)

\* what the caller of the heap-shared encoding observed of its last call
Outcome(call, ret, panic) == [call |-> call, ret |-> ret, panic |-> panic]

NoOutcome == Outcome("", None, "")

\* a call that returned ()
Returned(call) == Outcome(call, None, "")

InputId(gi, name) == IF name \in DOMAIN gi THEN gi[name] ELSE -1

RECURSIVE SumLens(_, _, _)
SumLens(ns, i, dep) ==
    IF i > Len(ns) THEN 0
    ELSE (IF dep THEN Len(ns[i].dependents) ELSE Len(ns[i].node_inputs))
         + SumLens(ns, i + 1, dep)

\* dependents entries that no successful add_node accounts for
Spurious(ns) == SumLens(ns, 1, TRUE) - SumLens(ns, 1, FALSE)

InputLists(n) ==
    UNION {[1..k -> 0..n] : k \in 0..MaxArity}

Init ==
    /\ nodes = <<>>
    /\ graph_inputs = <<>>
    /\ last = Call("new", -1, "", 0, None, None, "")
    /\ calls = <<>>
    /\ run = Idle
    /\ heap = <<>>
    /\ hlast = NoOutcome
    /\ alone = 0

AddNode ==
    \E inputs \in InputLists(Len(nodes)), op \in OpKinds :
        LET r == add_node(nodes, inputs, op) IN
        /\ r.panic = "" => Len(nodes) < MaxNodes
        /\ r.panic # "" => Spurious(r.nodes) <= MaxSpurious
        /\ nodes' = r.nodes
        /\ calls' = Zeros(Len(r.nodes))
        /\ last' = Call("add_node", r.id, "", 0, None, None, r.panic)
        /\ UNCHANGED <<graph_inputs, run, heap, hlast, alone>>

AddInputNode ==
    \E name \in Names :
        LET r == add_input_node(nodes, graph_inputs, name) IN
        /\ Len(nodes) < MaxNodes
        /\ nodes' = r.nodes
        /\ graph_inputs' = r.graph_inputs
        /\ calls' = Zeros(Len(r.nodes))
        /\ last' = Call("add_input_node", r.id, name, 0, None, None, r.panic)
        /\ UNCHANGED <<run, heap, hlast, alone>>

SetInput ==
    \E name \in Names \cup {UnknownName}, data \in Values :
        LET r == set_input(nodes, graph_inputs, name, data) IN
        /\ nodes' = r.nodes
        /\ calls' = Zeros(Len(nodes))
        /\ last' = Call("set_input", InputId(graph_inputs, name), name, data,
                        OldCache(nodes, InputId(graph_inputs, name)), None, r.panic)
        /\ UNCHANGED <<graph_inputs, run, heap, hlast, alone>>

InvalidateNode ==
    \E node \in 0..Len(nodes) :
        LET r == invalidate_node(nodes, node) IN
        /\ nodes' = r.nodes
        /\ calls' = Zeros(Len(nodes))
        /\ last' = Call("invalidate_node", node, "", 0, OldCache(nodes, node), None, r.panic)
        /\ UNCHANGED <<graph_inputs, run, heap, hlast, alone>>

Compute ==
    \E node \in 0..Len(nodes) :
        LET r == compute(nodes, node) IN
        /\ nodes' = r.nodes
        /\ calls' = r.calls
        /\ last' = Call("compute", node, "", 0, OldCache(nodes, node),
                        IF r.panic = "" THEN Some(r.val) ELSE None, r.panic)
        /\ UNCHANGED <<graph_inputs, run, heap, hlast, alone>>

Next == AddNode \/ AddInputNode \/ SetInput \/ InvalidateNode \/ Compute

Spec == Init /\ [][Next]_vars

\* ---- the same operations on a graph the caller has already built ----
\* add_input_node("a"); add_node([0]); add_node([1]); add_node([2, 0])
BuiltChain ==
    LET g0 == add_node(<<>>, <<>>, "unreachable").nodes
        g1 == add_node(g0, <<0>>, "fold").nodes
        g2 == add_node(g1, <<1>>, "fold").nodes
    IN add_node(g2, <<2, 0>>, "fold").nodes

InitBuilt ==
    /\ nodes = BuiltChain
    /\ graph_inputs = [k \in {"a"} |-> 0]
    /\ last = Call("add_node", Len(BuiltChain) - 1, "", 0, None, None, "")
    /\ calls = Zeros(Len(BuiltChain))
    /\ run = Idle
    /\ heap = <<>>
    /\ hlast = NoOutcome
    /\ alone = 0

NextBuilt == AddNode \/ SetInput \/ InvalidateNode \/ Compute

SpecBuilt == InitBuilt /\ [][NextBuilt]_vars

\* ---- the calls taken one step at a time ----
\* one iteration of invalidate_node's `while let Some(next) = stack.pop()`;
\* with an empty stack the loop ends and the call returns (to set_input's
\* store when set_input made the call)
invalidate_step(ns, r) ==
    IF r.stack = <<>>
    THEN [nodes |-> ns,
          run |-> [r EXCEPT !.pc = IF r.call = "set_input" THEN "store" ELSE "returned"]]
    ELSE LET next == r.stack[Len(r.stack)]
             rest == SubSeq(r.stack, 1, Len(r.stack) - 1)
         IN IF next >= Len(ns)
            THEN [nodes |-> ns, run |-> [r EXCEPT !.pc = "panicked", !.stack = rest]]
            ELSE [nodes |-> [ns EXCEPT ![next + 1].cache = None],
                  run |-> [r EXCEPT !.stack = rest \o At(ns, next).dependents,
                                    !.visits[next + 1] = IF @ < MaxVisits THEN @ + 1 ELSE @]]

\* the nodes whose op has been called so far, compute's own closure left out
Invoked(applied, owner) == IF owner = -1 THEN applied ELSE Append(applied, owner)

\* set_input after invalidate_node returned: the store of line 63
store_step(ns, r) ==
    [nodes |-> [ns EXCEPT ![r.node + 1].cache = Some(r.data)],
     run |-> [r EXCEPT !.pc = "returned"]]

\* calculate_node's for loop passing over an input that holds no value
calculate_for_skip(ns, r) ==
    LET d == Len(r.frames)
        input == r.frames[d].inputs[r.frames[d].i]
    IN IF input >= r.frames[d].hlen
       THEN [nodes |-> ns, run |-> [r EXCEPT !.pc = "panicked"]]
       ELSE [nodes |-> ns, run |-> [r EXCEPT !.frames[d].i = @ + 1]]

\* one iteration of the for loop of the innermost activation of calculate_node:
\* a recursive call for an input that holds no value, else on to the next input
calculate_for(ns, r) ==
    LET d == Len(r.frames)
        input == r.frames[d].inputs[r.frames[d].i]
    IN IF input >= r.frames[d].hlen
       THEN [nodes |-> ns, run |-> [r EXCEPT !.pc = "panicked"]]
       ELSE IF At(ns, input).cache = None
       THEN [nodes |-> ns,
             run |-> [r EXCEPT !.frames =
                         Append(@, Frame(input, At(ns, input).node_inputs, 1, input))]]
       ELSE [nodes |-> ns, run |-> [r EXCEPT !.frames[d].i = @ + 1]]

\* the loop over: the operation is called on the inputs' values (each taken
\* with `.expect("should be set in above loop")`), and the activation returns
\* to its caller, which stores the result in the cache of the input it was
\* computing and goes on to its next input
calculate_call(ns, r) ==
    LET d == Len(r.frames)
        top == r.frames[d]
    IN IF \/ OpOf(ns, top.owner) = "unreachable"
          \/ \E j \in 1..Len(top.inputs) : At(ns, top.inputs[j]).cache = None
       THEN [nodes |-> ns, run |-> [r EXCEPT !.pc = "panicked",
                                             !.applied = Invoked(@, top.owner)]]
       ELSE LET vals == [j \in 1..Len(top.inputs) |-> Unwrap(At(ns, top.inputs[j]).cache)]
                res == ApplyOp(OpOf(ns, top.owner), vals)
            IN IF res.panic # ""
               THEN [nodes |-> ns, run |-> [r EXCEPT !.pc = "panicked",
                                                     !.applied = Invoked(@, top.owner)]]
               ELSE IF d = 1
               THEN [nodes |-> ns,
                     run |-> [r EXCEPT !.pc = "returned", !.val = res.val, !.frames = <<>>]]
               ELSE LET parent == r.frames[d - 1]
                        input == parent.inputs[parent.i]
                    IN [nodes |-> [ns EXCEPT ![input + 1].cache = Some(res.val)],
                        run |-> [r EXCEPT
                            !.frames = [SubSeq(@, 1, d - 1) EXCEPT ![d - 1].i = @ + 1],
                            !.applied = Invoked(@, top.owner)]]

calculate_step(ns, r) ==
    IF r.frames[Len(r.frames)].i <= Len(r.frames[Len(r.frames)].inputs)
    THEN calculate_for(ns, r)
    ELSE calculate_call(ns, r)

\* construction, between calls (the record of the last call is not kept here)
CallAddNode ==
    /\ run.pc = "idle"
    /\ \E inputs \in InputLists(Len(nodes)), op \in OpKinds :
          LET r == add_node(nodes, inputs, op) IN
          /\ r.panic = "" => Len(nodes) < MaxNodes
          /\ r.panic # "" => Spurious(r.nodes) <= MaxSpurious
          /\ nodes' = r.nodes
    /\ UNCHANGED <<graph_inputs, last, calls, run, heap, hlast, alone>>

CallAddInputNode ==
    /\ run.pc = "idle"
    /\ Len(nodes) < MaxNodes
    /\ \E name \in Names :
          LET r == add_input_node(nodes, graph_inputs, name) IN
          /\ nodes' = r.nodes
          /\ graph_inputs' = r.graph_inputs
    /\ UNCHANGED <<last, calls, run, heap, hlast, alone>>

BeginSetInput ==
    /\ run.pc = "idle"
    /\ \E name \in Names \cup {UnknownName}, data \in Values :
          run' = IF name \notin DOMAIN graph_inputs
                 THEN Run("set_input", "panicked", -1, data, <<>>, <<>>,
                          Zeros(Len(nodes)), <<>>, 0)
                 ELSE Run("set_input", "loop", graph_inputs[name], data,
                          <<graph_inputs[name]>>, <<>>, Zeros(Len(nodes)), <<>>, 0)
    /\ UNCHANGED <<nodes, graph_inputs, last, calls, heap, hlast, alone>>

BeginInvalidateNode ==
    /\ run.pc = "idle"
    /\ \E node \in 0..Len(nodes) :
          run' = Run("invalidate_node", "loop", node, 0, <<node>>, <<>>,
                     Zeros(Len(nodes)), <<>>, 0)
    /\ UNCHANGED <<nodes, graph_inputs, last, calls, heap, hlast, alone>>

BeginCompute ==
    /\ run.pc = "idle"
    /\ \E node \in 0..Len(nodes) :
          run' = Run("compute", "loop", node, 0, <<>>,
                     <<Frame(Len(nodes), <<node>>, 1, -1)>>, Zeros(Len(nodes)), <<>>, 0)
    /\ UNCHANGED <<nodes, graph_inputs, last, calls, heap, hlast, alone>>

InvalidateStep ==
    /\ run.pc = "loop" /\ run.call \in {"invalidate_node", "set_input"}
    /\ nodes' = invalidate_step(nodes, run).nodes
    /\ run' = invalidate_step(nodes, run).run
    /\ UNCHANGED <<graph_inputs, last, calls, heap, hlast, alone>>

StoreStep ==
    /\ run.pc = "store"
    /\ nodes' = store_step(nodes, run).nodes
    /\ run' = store_step(nodes, run).run
    /\ UNCHANGED <<graph_inputs, last, calls, heap, hlast, alone>>

CalculateStep ==
    /\ run.pc = "loop" /\ run.call = "compute"
    /\ nodes' = calculate_step(nodes, run).nodes
    /\ run' = calculate_step(nodes, run).run
    /\ UNCHANGED <<graph_inputs, last, calls, heap, hlast, alone>>

\* control is back with the caller
Return ==
    /\ run.pc \in {"returned", "panicked"}
    /\ run' = Idle
    /\ UNCHANGED <<nodes, graph_inputs, last, calls, heap, hlast, alone>>

StepCall == InvalidateStep \/ StoreStep \/ CalculateStep \/ Return

NextSteps ==
    \/ CallAddNode \/ CallAddInputNode
    \/ BeginSetInput \/ BeginInvalidateNode \/ BeginCompute
    \/ InvalidateStep \/ StoreStep \/ CalculateStep \/ Return

\* a call that has started keeps running: there is one thread
SpecSteps == Init /\ [][NextSteps]_vars /\ WF_vars(StepCall)

(***************************************************************************)
(* Vocabulary of the properties: the forward edges, and the cache-free     *)
(* reference evaluation of a node over the current input values.           *)
(***************************************************************************)
Ids == 0..(Len(nodes) - 1)

IsInputNode(ns, n) == At(ns, n).op = "unreachable"

\* n reads x, directly or through other nodes (node_inputs edges)
RECURSIVE DependsOn(_, _, _)
DependsOn(ns, n, x) ==
    \E i \in 1..Len(At(ns, n).node_inputs) :
        LET j == At(ns, n).node_inputs[i] IN j = x \/ DependsOn(ns, j, x)

\* the value of n computed from scratch: None when an input it needs is unset
RECURSIVE RefEval(_, _)
RefEval(ns, n) ==
    IF IsInputNode(ns, n) THEN At(ns, n).cache
    ELSE LET ins == At(ns, n).node_inputs
             vs == [i \in 1..Len(ins) |-> RefEval(ns, ins[i])]
         IN IF \E i \in 1..Len(ins) : vs[i] = None THEN None
            ELSE Some(ApplyOp(At(ns, n).op, [i \in 1..Len(ins) |-> Unwrap(vs[i])]).val)

AncestorInputsSet(ns, n) ==
    /\ IsInputNode(ns, n) => IsSome(At(ns, n).cache)
    /\ \A x \in 0..(Len(ns) - 1) :
          (IsInputNode(ns, x) /\ DependsOn(ns, n, x)) => IsSome(At(ns, x).cache)

ValidId(n) == n >= 0 /\ n < Len(nodes)

\* C1: compute(id) on a node all of whose ancestor inputs are set returns the
\* value of the node evaluated from scratch over the current input values,
\* after any sequence of calls; no stale value is returned.
C1_ComputeReturnsFreshValue ==
    (last.call = "compute" /\ ValidId(last.node) /\ AncestorInputsSet(nodes, last.node))
        => (last.panic = "" /\ last.ret = RefEval(nodes, last.node))

\* an operation node recomputed by the call, over an input holding a value
C1_Witness ==
    /\ last.call = "compute" /\ ValidId(last.node)
    /\ ~IsInputNode(nodes, last.node)
    /\ \E x \in Ids : IsInputNode(nodes, x) /\ DependsOn(nodes, last.node, x)
    /\ AncestorInputsSet(nodes, last.node)
    /\ calls[last.node + 1] = 1
    /\ last.ret = RefEval(nodes, last.node)

\* C2: in every state, a cache Some(v) holds the value of the node evaluated
\* over the current values of its ancestor inputs (all of them set).
C2_CacheCoherent ==
    \A n \in Ids : IsSome(At(nodes, n).cache) => At(nodes, n).cache = RefEval(nodes, n)

\* C3: after set_input(name, v) returns, for every v (also the value the input
\* already holds), the input node holds Some(v) and every node that depends
\* on it holds None.
C3_SetInputInvalidatesDependents ==
    (last.call = "set_input" /\ last.panic = "")
        => /\ ValidId(last.node)
           /\ At(nodes, last.node).cache = Some(last.data)
           /\ \A n \in Ids : DependsOn(nodes, n, last.node) => At(nodes, n).cache = None

\* set_input with the value the input already held, and a dependent to invalidate
C3_Witness ==
    /\ last.call = "set_input" /\ last.panic = ""
    /\ last.old = Some(last.data)
    /\ \E n \in Ids : DependsOn(nodes, n, last.node) /\ At(nodes, n).cache = None

\* C4: set_input(name, v) leaves the cache of every node that is neither the
\* named input nor a dependent of it exactly as it was.
C4_SetInputFrame ==
    [][(last'.call = "set_input" /\ last'.panic = "")
         => \A n \in Ids :
               (n # last'.node /\ ~DependsOn(nodes, n, last'.node))
                   => At(nodes', n).cache = At(nodes, n).cache]_vars

\* C5: compute(id) with cache(id) = Some(v) returns v, invokes no node's
\* function and changes nothing in the graph.
C5_CachedComputeIsPure ==
    [][(last'.call = "compute" /\ ValidId(last'.node) /\ IsSome(At(nodes, last'.node).cache))
         => /\ last'.panic = ""
            /\ last'.ret = At(nodes, last'.node).cache
            /\ \A i \in 1..Len(calls') : calls'[i] = 0
            /\ nodes' = nodes
            /\ graph_inputs' = graph_inputs]_vars

\* a compute answered from the cache of an operation node
C5_Witness ==
    /\ last.call = "compute" /\ ValidId(last.node)
    /\ ~IsInputNode(nodes, last.node)
    /\ At(nodes, last.node).node_inputs # <<>>
    /\ IsSome(last.old) /\ last.ret = last.old

\* C6: within one compute call no node's function is invoked more than once.
C6_AtMostOncePerCompute ==
    last.call = "compute" => \A i \in 1..Len(calls) : calls[i] <= 1

Count(seq, x) == Cardinality({i \in 1..Len(seq) : seq[i] = x})

\* a node evaluated by the call that the queried subgraph reaches along several
\* paths: listed twice by one evaluated node, and read by two evaluated nodes
C6_Witness ==
    /\ last.call = "compute" /\ last.panic = ""
    /\ \E s \in Ids :
          /\ calls[s + 1] = 1
          /\ \E n \in Ids : calls[n + 1] = 1 /\ Count(At(nodes, n).node_inputs, s) = 2
          /\ \E n, m \in Ids : /\ n # m /\ calls[n + 1] = 1 /\ calls[m + 1] = 1
                               /\ Count(At(nodes, n).node_inputs, s) >= 1
                               /\ Count(At(nodes, m).node_inputs, s) >= 1
                               /\ Count(At(nodes, m).node_inputs, n) >= 1

\* compute descends from n through nodes with cache None down to an input node
\* that holds no value
RECURSIVE UnsetReachable(_, _)
UnsetReachable(ns, n) ==
    /\ At(ns, n).cache = None
    /\ \/ IsInputNode(ns, n)
       \/ \E i \in 1..Len(At(ns, n).node_inputs) :
             UnsetReachable(ns, At(ns, n).node_inputs[i])

\* C7: compute(id) that reaches an input node holding no value reports a typed
\* UnsetInput error to the caller: the call returns, it does not panic.
C7_UnsetInputIsTypedError ==
    (last.call = "compute" /\ ValidId(last.node) /\ UnsetReachable(nodes, last.node))
        => last.panic = ""

\* C8: a compute(id) that fails on an unset input leaves the graph valid: each
\* cache it wrote holds the value of that node over the current inputs, every
\* other cache and the topology are unchanged, and a compute that follows the
\* set_input of the missing input returns the correct value.
C8_FailedComputeLeavesGraphValid ==
    [][/\ (last'.call = "compute" /\ ValidId(last'.node) /\ last'.panic # "")
            => /\ Len(nodes') = Len(nodes) /\ graph_inputs' = graph_inputs
               /\ \A n \in Ids :
                     \/ nodes'[n + 1] = nodes[n + 1]
                     \/ /\ nodes'[n + 1] = [nodes[n + 1] EXCEPT !.cache = RefEval(nodes', n)]
                        /\ IsSome(RefEval(nodes', n))
       /\ (/\ last.call = "set_input" /\ last.panic = ""
           /\ last'.call = "compute" /\ ValidId(last'.node)
           /\ AncestorInputsSet(nodes, last'.node))
            => (last'.panic = "" /\ last'.ret = RefEval(nodes', last'.node))]_vars

\* C9: set_input with a name that was never registered reports a typed
\* UnknownInputName failure (the call returns, it does not panic) and changes
\* no cache, no node and no registry entry.
C9_UnknownNameIsTypedError ==
    [][(last'.call = "set_input" /\ last'.key \notin DOMAIN graph_inputs)
         => (last'.panic = "" /\ nodes' = nodes /\ graph_inputs' = graph_inputs)]_vars

\* C10: add_node fails when an input id does not exist in the arena, and a
\* failed add_node leaves the graph unchanged: no node appended, no dependents
\* list extended, so every dependents entry refers to an existing node.
C10_FailedAddNodeChangesNothing ==
    [][last'.call = "add_node"
         => /\ last'.panic = ""
               => /\ Len(nodes') = Len(nodes) + 1
                  /\ \A i \in 1..Len(nodes'[Len(nodes')].node_inputs) :
                        nodes'[Len(nodes')].node_inputs[i] < Len(nodes)
            /\ last'.panic # "" => (nodes' = nodes /\ graph_inputs' = graph_inputs)
            /\ \A n \in 1..Len(nodes') : \A j \in 1..Len(nodes'[n].dependents) :
                  nodes'[n].dependents[j] < Len(nodes')]_vars

\* the nodes invalidate_node's loop has popped and indexed when it stops: it
\* pops from the end of the stack, pushes the popped node's dependents, and
\* stops with the stack empty or, panicking, at an entry outside the arena,
\* with the entries below it on the stack never reached
RECURSIVE reached_loop(_, _, _)
reached_loop(ns, stack, seen) ==
    IF stack = <<>> THEN seen
    ELSE LET next == stack[Len(stack)]
             rest == SubSeq(stack, 1, Len(stack) - 1)
         IN IF next < 0 \/ next >= Len(ns) THEN seen
            ELSE reached_loop(ns, rest \o At(ns, next).dependents, seen \cup {next})

\* invalidate_node(id) reaches x: on a call that returns, x is id or is
\* reached from id through dependents entries
DepReach(ns, id, x) == x \in reached_loop(ns, <<id>>, {})

\* C11: invalidate_node(id), for an operation node or an input node, sets to
\* None the cache of id and of every node reached from id through dependents
\* entries and leaves every other cache as it was; on an input node it unsets
\* that input.
C11_InvalidateReachesDependents ==
    [][(last'.call = "invalidate_node" /\ last'.panic = "")
         => /\ Len(nodes') = Len(nodes)
            /\ \A n \in Ids :
                  At(nodes', n).cache =
                      IF DepReach(nodes, last'.node, n) THEN None ELSE At(nodes, n).cache]_vars

\* an input that held a value was unset, next to a node the call does not reach
C11_Witness ==
    /\ last.call = "invalidate_node" /\ last.panic = ""
    /\ IsInputNode(nodes, last.node) /\ IsSome(last.old)
    /\ At(nodes, last.node).cache = None
    /\ At(nodes, last.node).dependents # <<>>
    /\ \E n \in Ids : ~DepReach(nodes, last.node, n) /\ IsSome(At(nodes, n).cache)

\* C12: every id in a node's input list is smaller than the node's own index,
\* so no node lists itself and no construction call closes a cycle.
C12_InputsPrecedeNode ==
    \A n \in Ids : \A j \in 1..Len(At(nodes, n).node_inputs) :
        At(nodes, n).node_inputs[j] < n

\* a node reading two different earlier nodes, one of them an operation node
C12_Witness ==
    \E n \in Ids :
        /\ Len(At(nodes, n).node_inputs) = 2
        /\ At(nodes, n).node_inputs[1] # At(nodes, n).node_inputs[2]
        /\ \E j \in 1..2 : At(nodes, At(nodes, n).node_inputs[j]).node_inputs # <<>>

\* x occurs in the sequence seq
Occurs(seq, x) == \E j \in 1..Len(seq) : seq[j] = x

\* C13: the reverse edges mirror the forward edges: Y is in X's dependents
\* exactly when X is in Y's input list, and every dependents entry is the
\* index of an existing node.
C13_DependentsMirrorInputs ==
    \A x \in Ids :
        /\ \A j \in 1..Len(At(nodes, x).dependents) : At(nodes, x).dependents[j] \in Ids
        /\ \A y \in Ids :
              Occurs(At(nodes, x).dependents, y) <=> Occurs(At(nodes, y).node_inputs, x)

\* s is an initial segment of t
IsPrefix(s, t) == Len(s) <= Len(t) /\ SubSeq(t, 1, Len(s)) = s

\* C14: set_input, invalidate_node and compute change no input list, no
\* dependents list, not the number of nodes and not the registry (only cache
\* fields); add_node and add_input_node only append: every existing node keeps
\* its index, its input list and its cache.
C14_TopologyFrame ==
    [][/\ last'.call \in {"set_input", "invalidate_node", "compute"}
          => /\ Len(nodes') = Len(nodes)
             /\ graph_inputs' = graph_inputs
             /\ \A n \in Ids :
                   /\ At(nodes', n).node_inputs = At(nodes, n).node_inputs
                   /\ At(nodes', n).dependents = At(nodes, n).dependents
                   /\ At(nodes', n).op = At(nodes, n).op
       /\ last'.call \in {"add_node", "add_input_node"}
          => /\ Len(nodes') \in {Len(nodes), Len(nodes) + 1}
             /\ \A n \in Ids :
                   /\ At(nodes', n).node_inputs = At(nodes, n).node_inputs
                   /\ At(nodes', n).cache = At(nodes, n).cache
                   /\ At(nodes', n).op = At(nodes, n).op
                   /\ IsPrefix(At(nodes, n).dependents, At(nodes', n).dependents)]_vars

\* a set_input that unset a dependent, on a graph with a registry and edges
C14_Witness ==
    /\ last.call = "set_input" /\ last.panic = ""
    /\ IsSome(last.old) /\ last.old # Some(last.data)
    /\ Len(At(nodes, last.node).dependents) >= 2
    /\ \E n \in Ids : Len(At(nodes, n).node_inputs) = 2 /\ At(nodes, n).cache = None

\* C18: a compute(id) that returns is lazy: afterwards id and every ancestor of
\* id hold Some, every other cache is as it was, and only nodes whose cache was
\* None when the call started had their function invoked.
C18_ComputeIsLazy ==
    [][(last'.call = "compute" /\ last'.panic = "" /\ ValidId(last'.node))
         => \A n \in Ids :
               /\ (n = last'.node \/ DependsOn(nodes, last'.node, n))
                     => IsSome(At(nodes', n).cache)
               /\ ~(n = last'.node \/ DependsOn(nodes, last'.node, n))
                     => At(nodes', n).cache = At(nodes, n).cache
               /\ calls'[n + 1] > 0 => At(nodes, n).cache = None]_vars

\* the values held by the nodes of an input list, in list order
ArgsOf(ns, n) ==
    [i \in 1..Len(At(ns, n).node_inputs) |-> Unwrap(At(ns, At(ns, n).node_inputs[i]).cache)]

\* C19: every operation node that a compute call evaluates has its function
\* applied to its inputs' values in the order of its input list, one value
\* per position (twice for an id listed twice); the result is stored in the
\* node's cache, and returned when the node is the one queried.
C19_ArgumentsInDeclaredOrder ==
    [][last'.call = "compute"
         => \A n \in Ids :
               (calls'[n + 1] > 0 /\ ~IsInputNode(nodes, n))
                  => /\ At(nodes', n).cache =
                           Some(ApplyOp(At(nodes, n).op, ArgsOf(nodes', n)).val)
                     /\ (n = last'.node /\ last'.panic = "")
                           => last'.ret = At(nodes', n).cache]_vars

\* the queried node was evaluated over two inputs holding different values
C19_Witness ==
    /\ last.call = "compute" /\ last.panic = "" /\ ValidId(last.node)
    /\ calls[last.node + 1] = 1
    /\ Len(At(nodes, last.node).node_inputs) = 2
    /\ ArgsOf(nodes, last.node)[1] # ArgsOf(nodes, last.node)[2]
    /\ last.ret = At(nodes, last.node).cache

\* an input node that no name of the registry resolves to
Unbound(ns, gi, e) ==
    IsInputNode(ns, e) /\ \A k \in DOMAIN gi : gi[k] # e

\* C20 as stated: once a name is registered twice, the earlier node holds None
\* after every set_input, and compute on it or on a node that depends on it
\* never succeeds.
C20_EarlierNodeStaysNone ==
    /\ (last.call = "set_input" /\ last.panic = "")
          => \A e \in Ids : Unbound(nodes, graph_inputs, e) => At(nodes, e).cache = None
    /\ (last.call = "compute" /\ ValidId(last.node)
          /\ \E e \in Ids : /\ Unbound(nodes, graph_inputs, e)
                            /\ (e = last.node \/ DependsOn(nodes, last.node, e)))
          => last.panic # ""

\* C20, amended: add_input_node(name) on a registered name appends a second
\* leaf and rebinds the name to it, the earlier leaf staying in place with the
\* cache it had; set_input writes the node the name resolves to (Some(v) when
\* the call returns), stores a value in no other node and changes no node of
\* a smaller index, so the earlier leaf keeps the cache it had, None or a
\* value; compute on a leaf returns the value it holds and fails while it
\* holds none, as does compute on a node that reaches such a leaf through
\* nodes holding no value.
C20_RebindKeepsEarlierNode ==
    [][/\ last'.call = "add_input_node"
          => /\ last'.panic = "" /\ Len(nodes') = Len(nodes) + 1
             /\ graph_inputs'[last'.key] = Len(nodes)
             /\ IsInputNode(nodes', Len(nodes)) /\ At(nodes', Len(nodes)).cache = None
             /\ \A k \in DOMAIN graph_inputs :
                   /\ k # last'.key => graph_inputs'[k] = graph_inputs[k]
                   /\ k = last'.key
                         => /\ graph_inputs[k] < graph_inputs'[k]
                            /\ Unbound(nodes', graph_inputs', graph_inputs[k])
                            /\ At(nodes', graph_inputs[k]).cache = At(nodes, graph_inputs[k]).cache
       /\ (last'.call = "set_input" /\ last'.key \in DOMAIN graph_inputs)
          => /\ last'.node = graph_inputs[last'.key]
             /\ last'.panic = "" => At(nodes', last'.node).cache = Some(last'.data)
             /\ \A e \in Ids : e < last'.node => At(nodes', e).cache = At(nodes, e).cache
             /\ \A e \in Ids : e # last'.node
                   => At(nodes', e).cache \in {At(nodes, e).cache, None}
       /\ (last'.call = "compute" /\ ValidId(last'.node))
          => /\ IsInputNode(nodes, last'.node)
                   => /\ last'.panic = "" <=> IsSome(At(nodes, last'.node).cache)
                      /\ last'.panic = "" => last'.ret = At(nodes, last'.node).cache
             /\ UnsetReachable(nodes, last'.node) => last'.panic # ""]_vars

\* the name was set, registered again and set again: the earlier leaf still
\* holds the first value, the later leaf the second
C20_Witness ==
    /\ last.call = "set_input" /\ last.panic = ""
    /\ \E e \in Ids :
          /\ Unbound(nodes, graph_inputs, e) /\ e < last.node
          /\ IsSome(At(nodes, e).cache)
          /\ At(nodes, e).cache # At(nodes, last.node).cache

Running == run.pc \in {"loop", "store"}

\* C15: every compute, invalidate_node and set_input call that has started
\* comes to an end, by returning or by failing, on every graph the
\* construction calls can build.
C15_CallsTerminate == Running ~> ~Running

\* a compute that went three activations deep has returned
C15_Witness ==
    /\ run.call = "compute" /\ run.pc = "returned"
    /\ Len(run.applied) >= 3
    /\ \E n \in Ids : Len(At(nodes, n).node_inputs) = 2

\* C16: within one compute call an operation is called only when every input
\* of its node holds Some, and the operations run in a topological order: no
\* node's operation runs before that of a node it reads.
C16_InputsCachedBeforeApply ==
    run.call = "compute"
      => /\ \A d \in 1..Len(run.frames) :
               \A j \in 1..(run.frames[d].i - 1) :
                   IsSome(At(nodes, run.frames[d].inputs[j]).cache)
         /\ \A k \in 1..Len(run.applied) :
               \A j \in 1..Len(At(nodes, run.applied[k]).node_inputs) :
                   LET input == At(nodes, run.applied[k]).node_inputs[j]
                   IN /\ IsSome(At(nodes, input).cache)
                      /\ \A m \in (k + 1)..Len(run.applied) : run.applied[m] # input

\* an operation over two inputs is about to be called, inside a recursive
\* activation, after another operation of this call has run
C16_Witness ==
    /\ run.call = "compute" /\ run.pc = "loop"
    /\ Len(run.frames) >= 2 /\ Len(run.applied) >= 1
    /\ LET top == run.frames[Len(run.frames)]
       IN Len(top.inputs) = 2 /\ top.i = 3 /\ top.inputs[1] # top.inputs[2]

\* C17: invalidate_node (called directly or by set_input) visits every node it
\* reaches exactly once and expands its dependents at most once, also when
\* the node is reached along several paths.
C17_VisitsEachNodeOnce ==
    run.call \in {"invalidate_node", "set_input"}
      => \A n \in 1..Len(run.visits) : run.visits[n] <= 1

\* C22: staleness is closed under dependents: a node holding Some has Some on
\* every one of its inputs (a node holding None has None on every node that
\* lists it), also after a compute that failed on an unset input.
C22_StalenessClosed ==
    \A n \in Ids :
        IsSome(At(nodes, n).cache)
           => \A j \in 1..Len(At(nodes, n).node_inputs) :
                 IsSome(At(nodes, At(nodes, n).node_inputs[j]).cache)

\* ---- the heap-shared encoding (comp_graph.rs) ----
\* heap holds the OperationNodeInner objects in allocation order; an Rc to an
\* object is its position (from 0). operation: InputOp(name), or a pair
\* (inputs, F) whose inputs are a Vec ("vec") or a tuple ("tuple"); F is the
\* function of the arena's "fold", taking the Vec or tuple in field order.
HNode(cache, dependents, operation) ==
    [cache |-> cache, dependents |-> dependents, operation |-> operation]

InputOp(name) == [kind |-> "input", name |-> name, inputs |-> <<>>]

PairOp(kind, inputs) == [kind |-> kind, name |-> "", inputs |-> inputs]

HeapKinds == {"vec", "tuple"}

\* the field ids impl_tuples! hands to impl_tuple! for a k-tuple: k-1, ..., 0
TupleIds(k) == [j \in 1..k |-> k - j]

\* a reverse! that leaves the ids in the order it was given them
reverse_identity(ids) == ids

\* the reverse! macro: the ids last first
reverse(ids) == [j \in 1..Len(ids) |-> ids[Len(ids) + 1 - j]]

\* the fields in the order execute computes them and hands them to F
ExecOrder(op) ==
    IF op.kind = "tuple" THEN reverse(TupleIds(Len(op.inputs)))
    ELSE [j \in 1..Len(op.inputs) |-> j - 1]

\* the fields in the order notify_deps visits them
NotifyOrder(op) ==
    IF op.kind = "tuple" THEN TupleIds(Len(op.inputs))
    ELSE [j \in 1..Len(op.inputs) |-> j - 1]

\* notify_deps: push the new node onto the dependents of each of its inputs
RECURSIVE notify_deps(_, _, _, _)
notify_deps(h, op, j, current) ==
    IF j > Len(NotifyOrder(op)) THEN h
    ELSE LET x == op.inputs[NotifyOrder(op)[j] + 1]
         IN notify_deps([h EXCEPT ![x + 1].dependents = Append(@, current)],
                        op, j + 1, current)

\* OperationNode::new
heap_new(h, op) ==
    notify_deps(Append(h, HNode(None, <<>>, op)), op, 1, Len(h))

\* InputNode::new_input
new_input(h, name) == Append(h, HNode(None, <<>>, InputOp(name)))

\* Cached::invalidate_cache
RECURSIVE invalidate_cache(_, _)
RECURSIVE invalidate_each(_, _, _)
invalidate_each(h, deps, j) ==
    IF j > Len(deps) THEN h
    ELSE invalidate_each(invalidate_cache(h, deps[j]), deps, j + 1)

invalidate_cache(h, n) ==
    invalidate_each([h EXCEPT ![n + 1].cache = None], At(h, n).dependents, 1)

\* InputNode::set
heap_set(h, n, data) ==
    [invalidate_cache(h, n) EXCEPT ![n + 1].cache = Some(data)]

\* OperationNode::compute and Operation::execute
RECURSIVE heap_compute(_, _)
RECURSIVE execute(_, _)
RECURSIVE collect(_, _, _, _, _)
collect(h, inputs, order, j, vals) ==
    IF j > Len(order) THEN [heap |-> h, panic |-> "", vals |-> vals]
    ELSE LET r == heap_compute(h, inputs[order[j] + 1])
         IN IF r.panic # "" THEN [heap |-> r.heap, panic |-> r.panic, vals |-> vals]
            ELSE collect(r.heap, inputs, order, j + 1, Append(vals, r.val))

execute(h, op) ==
    IF op.kind = "input"
    THEN [heap |-> h, panic |-> "input data has not been set", val |-> 0]
    ELSE LET c == collect(h, op.inputs, ExecOrder(op), 1, <<>>)
         IN IF c.panic # "" THEN [heap |-> c.heap, panic |-> c.panic, val |-> 0]
            ELSE [heap |-> c.heap, panic |-> "", val |-> FoldFrom(c.vals, 1, 1)]

heap_compute(h, n) ==
    IF IsSome(At(h, n).cache)
    THEN [heap |-> h, panic |-> "", val |-> Unwrap(At(h, n).cache)]
    ELSE LET r == execute(h, At(h, n).operation)
         IN IF r.panic # "" THEN r
            ELSE [heap |-> [r.heap EXCEPT ![n + 1].cache = Some(r.val)],
                  panic |-> "", val |-> r.val]

\* the objects in the dependents lists of the objects of the set S
HeapNext(h, S) ==
    UNION {{At(h, m).dependents[j] : j \in 1..Len(At(h, m).dependents)} : m \in S}

\* the objects invalidate_cache(n) calls itself on: n and what is reached from
\* it through dependents
RECURSIVE closure(_, _, _)
closure(h, frontier, seen) ==
    IF frontier \subseteq seen THEN seen
    ELSE closure(h, HeapNext(h, frontier \ seen), seen \cup frontier)

\* invalidate_cache(n) never returns: the dependents reached from n hold a
\* cycle, and the recursion has no guard against one (it ends in a stack
\* overflow, which aborts the process)
Overflows(h, n) ==
    \E m \in closure(h, {n}, {}) : m \in closure(h, HeapNext(h, {m}), {})

\* dependents entries that no OperationNode::new accounts for: the pushes of
\* notify_deps called by itself
RECURSIVE HeapSumLens(_, _, _)
HeapSumLens(h, i, dep) ==
    IF i > Len(h) THEN 0
    ELSE (IF dep THEN Len(h[i].dependents) ELSE Len(h[i].operation.inputs))
         + HeapSumLens(h, i + 1, dep)

HeapSpurious(h) == HeapSumLens(h, 1, TRUE) - HeapSumLens(h, 1, FALSE)

\* the process is gone
Aborted == hlast.panic = "stack overflow"

\* ---- the two encodings built and driven together ----
\* node i of the arena and the i-th object of the heap are built by the same
\* construction call, from the same inputs
BuildInputLists(n) ==
    UNION {[1..k -> 0..(n - 1)] : k \in 0..MaxArity}

BothNewInput ==
    /\ ~Aborted
    /\ Len(nodes) < MaxNodes
    /\ \E name \in Names :
          LET r == add_input_node(nodes, graph_inputs, name) IN
          /\ nodes' = r.nodes
          /\ graph_inputs' = r.graph_inputs
          /\ calls' = Zeros(Len(r.nodes))
          /\ last' = Call("add_input_node", r.id, name, 0, None, None, r.panic)
          /\ heap' = new_input(heap, name)
          /\ hlast' = Returned("new_input")
    /\ UNCHANGED <<run, alone>>

BothNewNode ==
    /\ ~Aborted
    /\ Len(nodes) < MaxNodes
    /\ \E inputs \in BuildInputLists(Len(nodes)), kind \in HeapKinds :
          LET r == add_node(nodes, inputs, "fold") IN
          /\ kind = "tuple" => Len(inputs) >= 1
          /\ nodes' = r.nodes
          /\ calls' = Zeros(Len(r.nodes))
          /\ last' = Call("add_node", r.id, "", 0, None, None, r.panic)
          /\ heap' = heap_new(heap, PairOp(kind, inputs))
          /\ hlast' = Returned("new")
    /\ UNCHANGED <<graph_inputs, run, alone>>

\* the stack overflow of a set or invalidate_cache that never returns ends
\* the process, the arena with it
Abort(call) ==
    /\ hlast' = Outcome(call, None, "stack overflow")
    /\ UNCHANGED <<nodes, graph_inputs, last, calls, run, heap>>

BothSet ==
    /\ ~Aborted
    /\ \E name \in DOMAIN graph_inputs, data \in Values :
          IF Overflows(heap, graph_inputs[name]) THEN Abort("set")
          ELSE LET r == set_input(nodes, graph_inputs, name, data) IN
               /\ nodes' = r.nodes
               /\ calls' = Zeros(Len(nodes))
               /\ last' = Call("set_input", graph_inputs[name], name, data,
                               OldCache(nodes, graph_inputs[name]), None, r.panic)
               /\ heap' = heap_set(heap, graph_inputs[name], data)
               /\ hlast' = Returned("set")
               /\ UNCHANGED <<graph_inputs, run>>
    /\ UNCHANGED alone

BothInvalidate ==
    /\ ~Aborted
    /\ \E node \in 0..(Len(nodes) - 1) :
          IF Overflows(heap, node) THEN Abort("invalidate_cache")
          ELSE LET r == invalidate_node(nodes, node) IN
               /\ nodes' = r.nodes
               /\ calls' = Zeros(Len(nodes))
               /\ last' = Call("invalidate_node", node, "", 0, OldCache(nodes, node),
                               None, r.panic)
               /\ heap' = invalidate_cache(heap, node)
               /\ hlast' = Returned("invalidate_cache")
               /\ UNCHANGED <<graph_inputs, run>>
    /\ UNCHANGED alone

BothCompute ==
    /\ ~Aborted
    /\ \E node \in 0..(Len(nodes) - 1) :
          LET r == compute(nodes, node)
              q == heap_compute(heap, node)
          IN /\ nodes' = r.nodes
             /\ calls' = r.calls
             /\ last' = Call("compute", node, "", 0, OldCache(nodes, node),
                             IF r.panic = "" THEN Some(r.val) ELSE None, r.panic)
             /\ heap' = q.heap
             /\ hlast' = Outcome("compute", IF q.panic = "" THEN Some(q.val) ELSE None,
                                 q.panic)
    /\ UNCHANGED <<graph_inputs, run, alone>>

\* Operation::notify_deps called by itself, on an operation over existing
\* nodes and with an existing node as `current`: the pushes of OperationNode::new
\* with no node created. The arena has no such call. The operation has at
\* least one input: on one without inputs neither impl pushes anything.
NotifyDeps ==
    /\ ~Aborted
    /\ alone < MaxAlone
    /\ \E inputs \in BuildInputLists(Len(heap)), kind \in HeapKinds,
          current \in 0..(Len(heap) - 1) :
          /\ Len(inputs) >= 1
          /\ HeapSpurious(heap) + Len(inputs) <= MaxSpurious
          /\ heap' = notify_deps(heap, PairOp(kind, inputs), 1, current)
          /\ hlast' = Returned("notify_deps")
    /\ alone' = alone + 1
    /\ UNCHANGED <<nodes, graph_inputs, last, calls, run>>

\* InputNode::set on a leaf whose name has since been registered again: the
\* caller still holds the Rc of the earlier leaf, while set_input reaches only
\* the node the name is bound to now. The arena has no such call.
SetAlone ==
    /\ ~Aborted
    /\ alone < MaxAlone
    /\ \E n \in 0..(Len(heap) - 1), data \in Values :
          /\ At(heap, n).operation.kind = "input"
          /\ \A k \in DOMAIN graph_inputs : graph_inputs[k] # n
          /\ IF Overflows(heap, n) THEN Abort("set")
             ELSE /\ heap' = heap_set(heap, n, data)
                  /\ hlast' = Returned("set")
                  /\ UNCHANGED <<nodes, graph_inputs, last, calls, run>>
    /\ alone' = alone + 1

\* Operation::execute called by itself, on an operation the caller built over
\* existing nodes: it computes those nodes, storing their caches, and applies
\* F; no node holds the result. The arena has no such call. The operation
\* has at least one input: on one without inputs no node is computed.
ExecuteAlone ==
    /\ ~Aborted
    /\ alone < MaxAlone
    /\ \E inputs \in BuildInputLists(Len(heap)), kind \in HeapKinds :
          LET q == execute(heap, PairOp(kind, inputs)) IN
          /\ Len(inputs) >= 1
          /\ heap' = q.heap
          /\ hlast' = Outcome("execute", IF q.panic = "" THEN Some(q.val) ELSE None,
                              q.panic)
    /\ alone' = alone + 1
    /\ UNCHANGED <<nodes, graph_inputs, last, calls, run>>

NextBoth ==
    \/ BothNewInput \/ BothNewNode \/ BothSet \/ BothInvalidate \/ BothCompute
    \/ NotifyDeps \/ SetAlone \/ ExecuteAlone

SpecBoth == Init /\ [][NextBoth]_vars

\* C21: the heap-shared encoding and the arena encoding, built with the same
\* topology and driven by the same calls (alone = 0: every call made so far
\* was made to both, none to the heap encoding alone), agree: each compute
\* returns the same value in both or fails in both, and after every step
\* node i of the arena and object i of the heap hold the same cache.
C21_EncodingsAgree ==
    alone = 0
      => /\ ~Aborted
         /\ HeapSpurious(heap) = 0
         /\ Len(heap) = Len(nodes)
         /\ \A n \in Ids :
               /\ At(heap, n).cache = At(nodes, n).cache
               /\ At(heap, n).operation.inputs = At(nodes, n).node_inputs
               /\ At(heap, n).dependents = At(nodes, n).dependents
         /\ (last.call = "compute" /\ hlast.call = "compute")
               => /\ (last.panic = "") <=> (hlast.panic = "")
                  /\ last.ret = hlast.ret

\* both encodings evaluated a tuple node over two inputs holding different
\* values and returned the same value
C21_Witness ==
    /\ alone = 0
    /\ last.call = "compute" /\ last.panic = ""
    /\ hlast.call = "compute" /\ hlast.panic = ""
    /\ calls[last.node + 1] = 1
    /\ At(heap, last.node).operation.kind = "tuple"
    /\ Len(At(nodes, last.node).node_inputs) = 2
    /\ ArgsOf(nodes, last.node)[1] # ArgsOf(nodes, last.node)[2]
    /\ IsSome(hlast.ret) /\ hlast.ret = At(heap, last.node).cache

====
